---- MODULE Spec2Model ----
(***************************************************************************)
(* Command correlation and notification subsystem of the backend:          *)
(*   - MqttCommandTracker            (app/mqtt_logger.py)                  *)
(*   - WebSocketManager              (app/api/routes/ws.py)                *)
(*   - the MQTT response handlers    (app/mqtt_handlers.py)                *)
(*   - the WebSocket endpoint        (app/api/routes/websocket.py)         *)
(*   - the command-issuing endpoints (app/api/routes/plc_*.py)             *)
(* Everything runs on one asyncio event loop: a step of the model is the   *)
(* code a coroutine runs between two suspension points.                    *)
(***************************************************************************)
EXTENDS Integers, Sequences, FiniteSets, TLC

\* ------------------------------------------------------------------ bounds
NumMsgs == 2
NotifyMsgs == 1
NumAcks == 2
NumConns == 2
MaxTicks == 1
HistCmds == 101
QueryCmds == 3
MaxLimit == 2
TimeoutCmds == 201

\* ------------------------------------------------------- program constants
max_history_size == 100
HistorySliceSlack == 100
DefaultTimeoutSeconds == 30
PlantId == 42

\* --------------------------------------------------------------- universes
MsgIds == 1..NumMsgs
NotifyIds == 1..NotifyMsgs
HistIds == 1..HistCmds
QueryIds == 1..QueryCmds
TimeoutIds == 1..TimeoutCmds
AckIds == 1..NumAcks
Conns == 1..NumConns

\* Canonical tenant identifiers, as str(uuid) prints them.
Tenants == {"t1", "t2"}

\* Python values that travel through the handlers: a type tag and the text
\* str() gives.
PyNone == [t |-> "NoneType", s |-> "None"]
PyStr(x) == [t |-> "str", s |-> x]
PyInt(x) == [t |-> "int", s |-> x]

\* Optional dictionary entries are sequences of length at most one:
\* << >> is a missing key.
Missing == << >>
Some(v) == << v >>

\* dict helpers
Put(f, k, v) == [x \in (DOMAIN f) \cup {k} |-> IF x = k THEN v ELSE f[x]]
Del(f, k) == [x \in (DOMAIN f) \ {k} |-> f[x]]
EmptyDict == [x \in {} |-> x]

VARIABLES
    pending_commands,       \* MqttCommandTracker.pending_commands
    command_history,        \* MqttCommandTracker.command_history, in insertion order
    timeout_tasks,          \* keys of MqttCommandTracker.timeout_tasks
    task,                   \* every timeout task ever created, by message id
    active_connections,     \* WebSocketManager.active_connections
    message_to_tenant_map,  \* WebSocketManager.message_to_tenant_map
    setgen,                 \* per tenant key: how many set objects were dropped
    handler,                \* the response handler invocations
    ws,                     \* the websocket_endpoint invocations
    sent,                   \* every send_text that completed: a bag of sends
    registered,             \* message ids ever given to register_command
    issued,                 \* message ids ever generated by an endpoint
    published,              \* message ids handed to mqtt_client.publish
    now,                    \* datetime.utcnow()
    returned                \* the last introspection call and what it returned

vars == << pending_commands, command_history, timeout_tasks, task,
           active_connections, message_to_tenant_map, setgen, handler, ws,
           sent, registered, issued, published, now, returned >>

registryVars == << active_connections, message_to_tenant_map, setgen >>

\* ------------------------------------------------------------- the records
\* A coroutine that is not running a broadcast.
NoMessage == [type |-> "", command_type |-> "", message_id |-> 0,
              status |-> "", error |-> PyNone]

\* The part of a coroutine's frame that belongs to
\* broadcast_to_message_originator / broadcast_to_tenant.
IdleFrame == [pc |-> "idle", message_id |-> 0, message |-> NoMessage,
              tenant_id |-> Missing, iter_size |-> 0, iter_gen |-> 0,
              iter_seen |-> {}, iter_old |-> {}, connection |-> Missing,
              disconnected |-> {}, exc |-> "", saw |-> ""]

\* A frame after its coroutine has ended: the locals are gone. What stays is
\* what the run observed: the message id, the tenant the index gave, the
\* connections the tenant had when the fan-out began, the exception.
Ended(frame, pc, exc) ==
    [frame EXCEPT !.pc = pc, !.exc = exc, !.message = NoMessage,
                  !.iter_size = 0, !.iter_gen = 0, !.iter_seen = {},
                  !.connection = Missing, !.disconnected = {}]

\* register_command's command_info
CommandInfo(message_id, command_type, tenant_id, timestamp) ==
    [message_id |-> message_id,
     command_type |-> command_type,
     tenant_id |-> tenant_id,
     plant_id |-> PlantId,
     payload |-> "payload",
     timestamp |-> timestamp,
     status |-> "pending",
     error |-> Missing,
     response_timestamp |-> Missing]

\* command_info.update({'status': .., 'error': .., 'response_timestamp': ..})
Resolved(info, status, error, timestamp) ==
    [info EXCEPT !.status = status,
                 !.error = Some(error),
                 !.response_timestamp = Some(timestamp)]

\* f'Command timed out after {timeout_seconds} seconds'
TimeoutError(timeout_seconds) ==
    "Command timed out after " \o ToString(timeout_seconds) \o " seconds"

\* ------------------------------------------------ command_history as a dict
HistoryKeys(h) == {h[i].message_id : i \in 1..Len(h)}

HistoryIndex(h, k) == CHOOSE i \in 1..Len(h) : h[i].message_id = k

\* command_history[k]
HistoryGet(h, k) == h[HistoryIndex(h, k)]

\* command_history[k] = info: a new key goes last, an old one keeps its place
HistoryPut(h, info) ==
    IF info.message_id \in HistoryKeys(h)
    THEN [h EXCEPT ![HistoryIndex(h, info.message_id)] = info]
    ELSE Append(h, info)

Min(a, b) == IF a <= b THEN a ELSE b
Max(a, b) == IF a >= b THEN a ELSE b

\* list[:k] keeps this many items of a list of n
SliceLen(n, k) == IF k >= 0 THEN Min(k, n) ELSE Max(n + k, 0)

\* sorted(seq, key=timestamp): stable, so equal timestamps keep dict order
RECURSIVE InsertByTimestamp(_, _)
InsertByTimestamp(sorted, info) ==
    IF sorted = << >> THEN << info >>
    ELSE IF sorted[Len(sorted)].timestamp <= info.timestamp
         THEN Append(sorted, info)
         ELSE Append(InsertByTimestamp(SubSeq(sorted, 1, Len(sorted) - 1), info),
                     sorted[Len(sorted)])

RECURSIVE SortedByTimestamp(_)
SortedByTimestamp(h) ==
    IF h = << >> THEN << >>
    ELSE InsertByTimestamp(SortedByTimestamp(SubSeq(h, 1, Len(h) - 1)), h[Len(h)])

\* sorted(...)[:-self.max_history_size + 100]
OldestKeys(h) ==
    LET sorted == SortedByTimestamp(h)
        n == SliceLen(Len(sorted), (0 - max_history_size) + HistorySliceSlack)
    IN  {sorted[i].message_id : i \in 1..n}

\* "Keep history size manageable"
TrimHistory(h) ==
    IF Len(h) > max_history_size
    THEN LET oldest_keys == OldestKeys(h)
         IN  SelectSeq(h, LAMBDA info : info.message_id \notin oldest_keys)
    ELSE h

\* -------------------------------------------------------------- the tracker
\* Task.cancel(): CancelledError is thrown into the coroutine at the await it
\* is suspended in; nothing in this code catches it.
Cancel_ignored(t) == t

Cancel(t) ==
    IF t.pc \in {"sleeping", "sending"} THEN [t EXCEPT !.pc = "cancelled"] ELSE t

\* asyncio.create_task(self._handle_command_timeout(message_id, timeout_seconds))
IdleTask == IdleFrame @@ [timeout_seconds |-> 0, wake |-> 0]

NewTimeoutTask(message_id, timeout_seconds) ==
    [IdleTask EXCEPT !.pc = "sleeping", !.message_id = message_id,
                     !.timeout_seconds = timeout_seconds,
                     !.wake = now + timeout_seconds]

\* register_command
register_command(message_id, command_type, tenant_id, timeout_seconds) ==
    /\ pending_commands' = Put(pending_commands, message_id,
            CommandInfo(message_id, command_type, tenant_id, now))
    /\ IF message_id \notin timeout_tasks
       THEN /\ task' = Put(task, message_id,
                            NewTimeoutTask(message_id, timeout_seconds))
            /\ timeout_tasks' = timeout_tasks \cup {message_id}
       ELSE UNCHANGED << task, timeout_tasks >>
    /\ UNCHANGED command_history

\* What update_command_status leaves in command_history
HistoryAfterUpdate(message_id, status, error) ==
    TrimHistory(HistoryPut(command_history,
        Resolved(pending_commands[message_id], status, error, now)))

\* update_command_status that copies the record to the history and leaves it
\* in pending
ResolvePending_keep_pending(message_id, status, error) ==
    /\ command_history' = HistoryAfterUpdate(message_id, status, error)
    /\ UNCHANGED pending_commands
    /\ IF message_id \in timeout_tasks
       THEN /\ task' = [task EXCEPT ![message_id] = Cancel(@)]
            /\ timeout_tasks' = timeout_tasks \ {message_id}
       ELSE UNCHANGED << task, timeout_tasks >>

\* update_command_status when message_id is pending
ResolvePending(message_id, status, error) ==
    /\ command_history' = HistoryAfterUpdate(message_id, status, error)
    /\ pending_commands' = Del(pending_commands, message_id)
    /\ IF message_id \in timeout_tasks
       THEN /\ task' = [task EXCEPT ![message_id] = Cancel(@)]
            /\ timeout_tasks' = timeout_tasks \ {message_id}
       ELSE UNCHANGED << task, timeout_tasks >>

\* Last write wins: a response for a resolved command rewrites its record in
\* the history
update_command_status_last_write(message_id, status, error) ==
    IF message_id \in DOMAIN pending_commands
    THEN ResolvePending(message_id, status, error)
    ELSE IF message_id \in HistoryKeys(command_history)
    THEN /\ command_history' = HistoryPut(command_history,
                 Resolved(HistoryGet(command_history, message_id),
                          status, error, now))
         /\ UNCHANGED << pending_commands, timeout_tasks, task >>
    ELSE UNCHANGED << pending_commands, command_history, timeout_tasks, task >>

\* update_command_status
update_command_status(message_id, status, error) ==
    IF message_id \in DOMAIN pending_commands
    THEN ResolvePending(message_id, status, error)
    ELSE UNCHANGED << pending_commands, command_history, timeout_tasks, task >>

\* get_command_status: Some(record) or Missing (None)
get_command_status(message_id) ==
    IF message_id \in DOMAIN pending_commands
    THEN Some(pending_commands[message_id])
    ELSE IF message_id \in HistoryKeys(command_history)
         THEN Some(HistoryGet(command_history, message_id))
         ELSE Missing

\* ------------------------------------------------------------- the registry
\* Path segments a client may open /ws/{tenant_id} with: the canonical text
\* of a tenant's UUID, another text uuid.UUID() accepts for the same UUID
\* (upper-case digits), and text that is no UUID.
TenantPaths == {"t1", "t2", "T1", "zz"}

\* uuid.UUID(text): Some(canonical text), or Missing for ValueError
UuidParse(text) ==
    CASE text \in Tenants -> Some(text)
      [] text = "T1" -> Some("t1")
      [] OTHER -> Missing

TenantKeys == {k \in TenantPaths : UuidParse(k) # Missing}

\* The registry's dictionary of sets, with the count of set objects each key
\* has dropped (a set dropped from the dictionary is a different object from
\* the one a later connect creates under the same key).
Registry == [conns |-> active_connections, gen |-> setgen]

\* connect that also adds the socket to every set already in the dictionary
connect_every_key(reg, websocket, tenant_id) ==
    [reg EXCEPT !.conns =
        [k \in DOMAIN reg.conns \cup {tenant_id} |->
            (IF k \in DOMAIN reg.conns THEN reg.conns[k] ELSE {})
                \cup {websocket}]]

\* WebSocketManager.connect, after accept()
connect(reg, websocket, tenant_id) ==
    [reg EXCEPT !.conns = Put(reg.conns, tenant_id,
        (IF tenant_id \in DOMAIN reg.conns THEN reg.conns[tenant_id] ELSE {})
            \cup {websocket})]

\* disconnect without the deletion of the emptied key
disconnect_keep_empty(reg, websocket, tenant_id) ==
    IF tenant_id \in DOMAIN reg.conns
    THEN [reg EXCEPT !.conns = Put(reg.conns, tenant_id,
                                   reg.conns[tenant_id] \ {websocket})]
    ELSE reg

\* WebSocketManager.disconnect
disconnect(reg, websocket, tenant_id) ==
    IF tenant_id \in DOMAIN reg.conns
    THEN LET rest == reg.conns[tenant_id] \ {websocket}
         IN  IF Cardinality(rest) = 0
             THEN [conns |-> Del(reg.conns, tenant_id),
                   gen |-> [reg.gen EXCEPT ![tenant_id] = @ + 1]]
             ELSE [reg EXCEPT !.conns = Put(reg.conns, tenant_id, rest)]
    ELSE reg

\* for connection in disconnected: self.disconnect(connection, tenant_id)
RECURSIVE DisconnectEach(_, _, _)
DisconnectEach(reg, disconnected, tenant_id) ==
    IF disconnected = {} THEN reg
    ELSE LET connection == CHOOSE x \in disconnected : TRUE
         IN  DisconnectEach(disconnect(reg, connection, tenant_id),
                            disconnected \ {connection}, tenant_id)

\* An endpoint that publishes without registering the mapping
register_message_tenant_mapping_skip(map, message_id, tenant_id) == map

\* register_message_tenant_mapping
register_message_tenant_mapping(map, message_id, tenant_id) ==
    Put(map, message_id, tenant_id)

\* get_tenant_by_message_id: dict.get
get_tenant_by_message_id(map, message_id) ==
    IF message_id \in DOMAIN map THEN Some(map[message_id]) ELSE Missing

\* remove_message_tenant_mapping
remove_message_tenant_mapping_keep(map, message_id) == map

remove_message_tenant_mapping(map, message_id) ==
    IF message_id \in DOMAIN map THEN Del(map, message_id) ELSE map

\* An iteration over every registered connection, whatever its tenant
ConnectionsOf_any_tenant(conns, tenant_id) ==
    UNION {conns[k] : k \in DOMAIN conns}

\* The connections broadcast_to_tenant iterates: self.active_connections[tenant_id]
ConnectionsOf(conns, tenant_id) == conns[tenant_id]

\* broadcast_to_tenant without the membership test: indexing the dict raises
\* KeyError, which the caller's handler catches; the mapping stays.
BroadcastToNobody_KeyError(frame, message_id) ==
    {[frame |-> Ended(frame, "done", "KeyError"), map |-> message_to_tenant_map]}

\* broadcast_to_message_originator for a tenant that is not a key of
\* active_connections: broadcast_to_tenant does nothing, the mapping goes.
BroadcastToNobody(frame, message_id) ==
    {[frame |-> Ended(frame, "done", ""),
      map |-> remove_message_tenant_mapping(message_to_tenant_map, message_id)]}

\* broadcast_to_message_originator from its call to the first send_text it
\* awaits, or to its return when it sends nothing. The results are the
\* possible frames (set iteration order is arbitrary) with the index left.
BroadcastStart(frame, message, message_id) ==
    LET tenant == get_tenant_by_message_id(message_to_tenant_map, message_id)
        f0 == [frame EXCEPT !.message = message, !.message_id = message_id,
                            !.tenant_id = tenant]
    IN  IF tenant = Missing \/ tenant = Some("")
        THEN {[frame |-> Ended(f0, "done", ""), map |-> message_to_tenant_map]}
        ELSE IF tenant[1] \in DOMAIN active_connections
                  /\ ConnectionsOf(active_connections, tenant[1]) # {}
             THEN {[frame |-> [f0 EXCEPT !.pc = "sending",
                                         !.connection = Some(c),
                                         !.iter_size = Cardinality(
                                             ConnectionsOf(active_connections, tenant[1])),
                                         !.iter_gen = setgen[tenant[1]],
                                         !.iter_old =
                                             ConnectionsOf(active_connections, tenant[1]),
                                         !.iter_seen = {c}],
                    map |-> message_to_tenant_map]
                   : c \in ConnectionsOf(active_connections, tenant[1])}
             ELSE BroadcastToNobody(f0, message_id)

SendResults == {"ok", "WebSocketDisconnect", "RuntimeError"}

\* The bag of sends with one more send in it
Sent(bag, send) ==
    IF send \in DOMAIN bag THEN [bag EXCEPT ![send] = @ + 1]
    ELSE Put(bag, send, 1)

\* One resumption of broadcast_to_tenant: the awaited send_text ends with
\* `result`, then the loop asks the set iterator for the next connection and
\* either awaits the next send, or leaves the loop, drops the disconnected
\* connections and returns through broadcast_to_message_originator.
BroadcastResume(frame, result, by) ==
    LET c == frame.connection[1]
        t == frame.tenant_id[1]
        unchanged == [conns |-> active_connections, gen |-> setgen,
                      map |-> message_to_tenant_map]
        sent1 == IF result = "ok"
                 THEN Sent(sent, [to |-> c, tenant_id |-> t,
                                  message |-> frame.message, by |-> by])
                 ELSE sent
        f1 == [frame EXCEPT !.connection = Missing,
                            !.disconnected =
                                IF result = "WebSocketDisconnect"
                                THEN @ \cup {c} ELSE @]
        \* the set object the iterator walks
        live == IF frame.iter_gen = setgen[t] /\ t \in DOMAIN active_connections
                THEN ConnectionsOf(active_connections, t) ELSE {}
        old_unseen == (frame.iter_old \cap live) \ frame.iter_seen
        new_unseen == (live \ frame.iter_old) \ frame.iter_seen
        after == DisconnectEach(Registry, f1.disconnected, t)
    IN  IF result = "RuntimeError"
        THEN {unchanged @@ [frame |-> Ended(f1, "raised", "RuntimeError"),
                            sent |-> sent]}
        ELSE IF Cardinality(live) # frame.iter_size
        THEN \* RuntimeError: Set changed size during iteration
             {unchanged @@ [frame |-> Ended(f1, "raised", "RuntimeError"),
                            sent |-> sent1]}
        ELSE {unchanged @@ [frame |-> [f1 EXCEPT !.pc = "sending",
                                                !.connection = Some(c2),
                                                !.iter_seen = @ \cup {c2}],
                            sent |-> sent1]
              : c2 \in old_unseen \cup new_unseen}
             \cup
             (IF old_unseen = {}
              THEN {[frame |-> Ended(f1, "done", ""),
                     conns |-> after.conns, gen |-> after.gen,
                     map |-> remove_message_tenant_mapping(message_to_tenant_map,
                                                           frame.message_id),
                     sent |-> sent1]}
              ELSE {})

\* ---------------------------------------------------- the response handlers
\* What a device (or anything else) may publish on a response topic.
NoPayload == [bytes |-> "", json |-> FALSE, message_id |-> Missing,
              status |-> Missing, error |-> Missing]

DeviceErrors == {Missing, Some(PyInt("-2"))}

WellFormedPayloads(ids) ==
    {[bytes |-> "utf8", json |-> TRUE, message_id |-> Some(m),
      status |-> Some(st), error |-> e]
     : m \in ids, st \in {"ok", "error"}, e \in DeviceErrors}

\* The two usual ones: ok without an error, error with an error code
UsualPayloads(ids) ==
    {p \in WellFormedPayloads(ids) :
        (p.status = Some("ok")) <=> (p.error = Missing)}

MalformedPayloads(ids) ==
    {[NoPayload EXCEPT !.bytes = "utf8"],                     \* not JSON
     [NoPayload EXCEPT !.bytes = "binary"]}                   \* not UTF-8
    \cup {[bytes |-> "utf8", json |-> TRUE, message_id |-> Missing,
           status |-> Some("ok"), error |-> Missing]}         \* no message_id
    \cup {[bytes |-> "utf8", json |-> TRUE, message_id |-> Some(m),
           status |-> st, error |-> Missing]
          : m \in ids, st \in {Missing, Some("done")}}        \* no / unknown status

\* MqttResponsePayload.model_validate_json: Some(response_data), or Missing
\* for ValidationError
model_validate_json(payload) ==
    IF /\ payload.bytes = "utf8"
       /\ payload.json
       /\ payload.message_id # Missing
       /\ payload.status \in {Some("ok"), Some("error")}
    THEN Some([message_id |-> payload.message_id[1],
               status |-> payload.status[1],
               error |-> IF payload.error = Missing THEN PyNone
                         ELSE payload.error[1]])
    ELSE Missing

\* payload.decode() in the ValidationError branch: "" or the exception raised
PayloadDecode(payload) ==
    IF payload.bytes = "utf8" THEN "" ELSE "UnicodeDecodeError"

\* str(response_data.error) if response_data.error is not None else None
ErrorStr(error) == IF error = PyNone THEN PyNone ELSE PyStr(error.s)

\* the message log_mqtt_command_response builds
ResponseMessage(message_id, status, error, command_type) ==
    [type |-> "command_response",
     command_type |-> command_type,
     message_id |-> message_id,
     status |-> status,
     error |-> IF status = "error" THEN error ELSE PyNone]

\* the message _handle_command_timeout builds
TimeoutMessage(message_id, command_type, timeout_seconds) ==
    [type |-> "command_response",
     command_type |-> command_type,
     message_id |-> message_id,
     status |-> "timeout",
     error |-> PyStr(TimeoutError(timeout_seconds))]

IdleHandler == IdleFrame

\* What the tracker holds for message_id when a response for it is handled:
\* "pending" (update_command_status takes its branch), a terminal status, or
\* "" for an id it does not know
StatusSeen(message_id) ==
    IF get_command_status(message_id) = Missing THEN ""
    ELSE get_command_status(message_id)[1].status

\* log_mqtt_command_response up to its first suspension, in the coroutine
\* of handler invocation h whose frame is `frame`
log_mqtt_command_response(h, frame, message_id, status, error, command_type) ==
    /\ update_command_status(message_id, status, error)
    /\ \E o \in BroadcastStart(
                    [frame EXCEPT !.saw = StatusSeen(message_id)],
                    ResponseMessage(message_id, status, error, command_type),
                    message_id) :
         /\ handler' = [handler EXCEPT ![h] = o.frame]
         /\ message_to_tenant_map' = o.map

\* handle_schedule_response / handle_action_response /
\* handle_plc_settings_response, from the callback to the first suspension
HandleResponse(h, payload, command_type) ==
    /\ handler[h].pc = "idle"
    /\ \A g \in AckIds : g < h => handler[g].pc # "idle"
    /\ LET response_data == model_validate_json(payload)
           start == handler[h]
       IN  IF response_data = Missing
           THEN \* except ValidationError: logger.error(f"... {payload.decode()} ...")
                /\ handler' = [handler EXCEPT ![h] =
                       IF PayloadDecode(payload) = ""
                       THEN Ended(start, "done", "ValidationError")
                       ELSE Ended(start, "escaped", PayloadDecode(payload))]
                /\ UNCHANGED << pending_commands, command_history, timeout_tasks,
                                task, message_to_tenant_map >>
           ELSE log_mqtt_command_response(h, start,
                    response_data[1].message_id, response_data[1].status,
                    ErrorStr(response_data[1].error), command_type)
    /\ UNCHANGED << active_connections, setgen, ws, sent, registered, issued,
                    published, now, returned >>

handle_schedule_response(h, payload) == HandleResponse(h, payload, "schedule")
handle_action_response(h, payload) == HandleResponse(h, payload, "action")
handle_plc_settings_response(h, payload) == HandleResponse(h, payload, "plc_settings")

\* The command types, and those whose response topic the client subscribes
\* to and has a handler for
CommandTypes == {"schedule", "action", "plc_settings", "plc_control"}
SubscribedTypes == {"schedule", "action", "plc_settings"}

\* The device publishes a response on the response topic of command_type.
\* The broker delivers it to the handler subscribed to that topic; with no
\* subscription nothing receives it, and slot h only records that it was
\* published.
DeliverAck(h, command_type, payload) ==
    CASE command_type = "schedule" -> handle_schedule_response(h, payload)
      [] command_type = "action" -> handle_action_response(h, payload)
      [] command_type = "plc_settings" -> handle_plc_settings_response(h, payload)
      [] OTHER ->
           /\ command_type \notin SubscribedTypes
           /\ handler[h].pc = "idle"
           /\ \A g \in AckIds : g < h => handler[g].pc # "idle"
           /\ handler' = [handler EXCEPT ![h] = Ended(
                  [@ EXCEPT !.message_id = payload.message_id[1]],
                  "unrouted", "")]
           /\ UNCHANGED << pending_commands, command_history, timeout_tasks,
                           task, active_connections, message_to_tenant_map,
                           setgen, ws, sent, registered, issued, published,
                           now, returned >>

\* A handler resumes from an awaited send_text. Whatever Exception the
\* broadcast raises is caught and logged by the handler's except clause.
HandlerResumes(h, result) ==
    /\ handler[h].pc = "sending"
    /\ \E o \in BroadcastResume(handler[h], result, << "ack", h >>) :
         /\ handler' = [handler EXCEPT ![h] =
                IF o.frame.pc = "raised" THEN [o.frame EXCEPT !.pc = "done"]
                ELSE o.frame]
         /\ active_connections' = o.conns
         /\ setgen' = o.gen
         /\ message_to_tenant_map' = o.map
         /\ sent' = o.sent
    /\ UNCHANGED << pending_commands, command_history, timeout_tasks, task, ws,
                    registered, issued, published, now, returned >>

\* ---------------------------------------------------------- the timeout task
\* _handle_command_timeout from the end of asyncio.sleep to the first
\* suspension in the broadcast. The sleep ends no earlier than `wake`.
TimeoutFires(m) ==
    /\ m \in DOMAIN task
    /\ task[m].pc = "sleeping"
    /\ now' = Max(now, task[m].wake)
    /\ IF m \in DOMAIN pending_commands
       THEN LET command_info == Resolved(pending_commands[m], "timeout",
                     PyStr(TimeoutError(task[m].timeout_seconds)), now')
            IN  /\ command_history' = HistoryPut(command_history, command_info)
                /\ pending_commands' = Del(pending_commands, m)
                /\ timeout_tasks' = timeout_tasks \ {m}
                /\ \E o \in BroadcastStart(task[m],
                        TimeoutMessage(m, command_info.command_type,
                                       task[m].timeout_seconds),
                        m) :
                     /\ task' = [task EXCEPT ![m] = o.frame]
                     /\ message_to_tenant_map' = o.map
       ELSE /\ task' = [task EXCEPT ![m] = Ended(@, "done", "")]
            /\ UNCHANGED << pending_commands, command_history, timeout_tasks,
                            message_to_tenant_map >>
    /\ UNCHANGED << active_connections, setgen, handler, ws, sent, registered,
                    issued, published, returned >>

\* The timeout task resumes from an awaited send_text. Nothing catches what
\* the broadcast raises: the exception ends the task.
TimeoutResumes(m, result) ==
    /\ m \in DOMAIN task
    /\ task[m].pc = "sending"
    /\ \E o \in BroadcastResume(task[m], result, << "timeout", m >>) :
         /\ task' = [task EXCEPT ![m] = o.frame]
         /\ active_connections' = o.conns
         /\ setgen' = o.gen
         /\ message_to_tenant_map' = o.map
         /\ sent' = o.sent
    /\ UNCHANGED << pending_commands, command_history, timeout_tasks, handler,
                    ws, registered, issued, published, now, returned >>

\* ------------------------------------------------------ websocket_endpoint
NewSocket == [pc |-> "new", tenant_id |-> ""]

\* An endpoint without the UUID check: every path is connected
WsOpen_accept_any(c, path) ==
    /\ ws[c].pc = "new"
    /\ ws' = [ws EXCEPT ![c] = [pc |-> "open", tenant_id |-> path]]
    /\ active_connections' = connect(Registry, c, path).conns
    /\ setgen' = connect(Registry, c, path).gen
    /\ UNCHANGED << pending_commands, command_history, timeout_tasks, task,
                    message_to_tenant_map, handler, sent, registered, issued,
                    published, now, returned >>

\* websocket_endpoint from the upgrade request to its first receive_text:
\* the UUID check, then manager.connect
WsOpen(c, path) ==
    /\ ws[c].pc = "new"
    /\ \A d \in Conns : d < c => ws[d].pc # "new"
    /\ IF UuidParse(path) = Missing
       THEN \* websocket.close(code=1008, ...); return
            /\ ws' = [ws EXCEPT ![c] = [pc |-> "rejected", tenant_id |-> path]]
            /\ UNCHANGED << active_connections, setgen >>
       ELSE /\ ws' = [ws EXCEPT ![c] = [pc |-> "open", tenant_id |-> path]]
            /\ active_connections' = connect(Registry, c, path).conns
            /\ setgen' = connect(Registry, c, path).gen
    /\ UNCHANGED << pending_commands, command_history, timeout_tasks, task,
                    message_to_tenant_map, handler, sent, registered, issued,
                    published, now, returned >>

\* receive_text raises WebSocketDisconnect: manager.disconnect
WsDisconnect(c) ==
    /\ ws[c].pc = "open"
    /\ ws' = [ws EXCEPT ![c].pc = "closed"]
    /\ active_connections' = disconnect(Registry, c, ws[c].tenant_id).conns
    /\ setgen' = disconnect(Registry, c, ws[c].tenant_id).gen
    /\ UNCHANGED << pending_commands, command_history, timeout_tasks, task,
                    message_to_tenant_map, handler, sent, registered, issued,
                    published, now, returned >>

\* receive_text raises anything else (a binary frame's KeyError, a
\* RuntimeError of the connection state): no except clause matches and the
\* endpoint ends with the exception.
WsError(c) ==
    /\ ws[c].pc = "open"
    /\ ws' = [ws EXCEPT ![c].pc = "crashed"]
    /\ UNCHANGED << pending_commands, command_history, timeout_tasks, task,
                    active_connections, message_to_tenant_map, setgen, handler,
                    sent, registered, issued, published, now, returned >>

\* ------------------------------------------------- command-issuing endpoints
\* A message id nobody has used: uuid.uuid4() of the payload model. Ids are
\* handed out in order, which names the same runs with fewer states.
FreshId(m) == /\ m \notin registered \cup DOMAIN issued
              /\ \A k \in 1..(m - 1) : k \in registered \cup DOMAIN issued

\* update_plc_data_settings / update_plc_control, from the payload's
\* construction on: the mapping is registered, then publish is called and
\* returns or raises (HTTP 500)
IssueCommand(m, tenant_id, publish_ok) ==
    /\ FreshId(m)
    /\ issued' = Put(issued, m, tenant_id)
    /\ message_to_tenant_map' =
           register_message_tenant_mapping(message_to_tenant_map, m, tenant_id)
    /\ published' = IF publish_ok THEN published \cup {m} ELSE published
    /\ UNCHANGED << pending_commands, command_history, timeout_tasks, task,
                    active_connections, setgen, handler, ws, sent, registered,
                    now, returned >>

\* A caller of MqttCommandTracker.register_command, for a command an endpoint
\* issued (with that endpoint's tenant) or for an id of the caller's own
RegisterCommand(m, command_type, tenant_id, timeout_seconds) ==
    /\ m \notin registered
    /\ \/ m \in DOMAIN issued /\ tenant_id = issued[m]
       \/ FreshId(m)
    /\ register_command(m, command_type, tenant_id, timeout_seconds)
    /\ registered' = registered \cup {m}
    /\ UNCHANGED << active_connections, message_to_tenant_map, setgen, handler,
                    ws, sent, issued, published, now, returned >>

\* A caller of MqttCommandTracker.update_command_status
UpdateStatusCall(m, status, error) ==
    /\ update_command_status(m, status, error)
    /\ UNCHANGED << active_connections, message_to_tenant_map, setgen, handler,
                    ws, sent, registered, issued, published, now, returned >>

\* The pending commands cleanup_expired_commands finds too old
ExpiredCommands(max_age_minutes) ==
    {msg_id \in DOMAIN pending_commands :
        now - pending_commands[msg_id].timestamp > max_age_minutes * 60}

\* A caller of MqttCommandTracker.cleanup_expired_commands
CleanupExpired(max_age_minutes) ==
    LET expired_commands == ExpiredCommands(max_age_minutes)
    IN  /\ task' = [m \in DOMAIN task |->
                       IF m \in expired_commands \cap timeout_tasks
                       THEN Cancel(task[m]) ELSE task[m]]
        /\ timeout_tasks' = timeout_tasks \ expired_commands
        /\ pending_commands' = [m \in (DOMAIN pending_commands) \ expired_commands
                                   |-> pending_commands[m]]
        /\ UNCHANGED << command_history, active_connections,
                        message_to_tenant_map, setgen, handler, ws, sent,
                        registered, issued, published, now, returned >>

\* Time passes.
Tick ==
    /\ now < MaxTicks * DefaultTimeoutSeconds
    /\ now' = now + DefaultTimeoutSeconds
    /\ UNCHANGED << pending_commands, command_history, timeout_tasks, task,
                    active_connections, message_to_tenant_map, setgen, handler,
                    ws, sent, registered, issued, published, returned >>

\* ------------------------------------------------------- the introspection
\* Before any introspection call has returned
NoCall == [call |-> "", arg |-> 0, value |-> Missing]

\* get_pending_commands: self.pending_commands.copy()
get_pending_commands == pending_commands

\* sorted(..., key=timestamp, reverse=True): stable, so equal timestamps keep
\* dict order
RECURSIVE InsertByTimestampReverse(_, _)
InsertByTimestampReverse(sorted, info) ==
    IF sorted = << >> THEN << info >>
    ELSE IF sorted[Len(sorted)].timestamp >= info.timestamp
         THEN Append(sorted, info)
         ELSE Append(InsertByTimestampReverse(
                         SubSeq(sorted, 1, Len(sorted) - 1), info),
                     sorted[Len(sorted)])

RECURSIVE SortedByTimestampReverse(_)
SortedByTimestampReverse(h) ==
    IF h = << >> THEN << >>
    ELSE InsertByTimestampReverse(
             SortedByTimestampReverse(SubSeq(h, 1, Len(h) - 1)), h[Len(h)])

\* get_recent_history that sorts oldest first
get_recent_history_oldest_first(limit) ==
    LET sorted_history == SortedByTimestamp(command_history)
    IN  SubSeq(sorted_history, 1, SliceLen(Len(sorted_history), limit))

\* get_recent_history: dict(sorted(...)[:limit]), as the sequence of its items
get_recent_history(limit) ==
    LET sorted_history == SortedByTimestampReverse(command_history)
    IN  SubSeq(sorted_history, 1, SliceLen(Len(sorted_history), limit))

\* A caller of one of the three introspection methods
Introspect(call, arg, value) ==
    /\ returned' = [call |-> call, arg |-> arg, value |-> value]
    /\ UNCHANGED << pending_commands, command_history, timeout_tasks, task,
                    active_connections, message_to_tenant_map, setgen, handler,
                    ws, sent, registered, issued, published, now >>

GetCommandStatus(message_id) ==
    Introspect("get_command_status", message_id, get_command_status(message_id))

GetPendingCommands ==
    Introspect("get_pending_commands", 0, get_pending_commands)

GetRecentHistory(limit) ==
    Introspect("get_recent_history", limit, get_recent_history(limit))

\* ------------------------------------------------------ the specifications
Init ==
    /\ pending_commands = EmptyDict
    /\ command_history = << >>
    /\ timeout_tasks = {}
    /\ task = EmptyDict
    /\ active_connections = EmptyDict
    /\ message_to_tenant_map = EmptyDict
    /\ setgen = [k \in TenantKeys |-> 0]
    /\ handler = [h \in AckIds |-> IdleHandler]
    /\ ws = [c \in Conns |-> NewSocket]
    /\ sent = EmptyDict
    /\ registered = {}
    /\ issued = EmptyDict
    /\ published = {}
    /\ now = 0
    /\ returned = NoCall

\* The message ids a response can carry: the ids generated so far
KnownIds == registered \cup DOMAIN issued

\* Commands of one tenant, their responses and timeouts, and that tenant's
\* connections.
Next ==
    \/ \E m \in NotifyIds : IssueCommand(m, "t1", TRUE)
    \/ \E m \in NotifyIds :
          RegisterCommand(m, "schedule", "t1", DefaultTimeoutSeconds)
    \/ \E m \in NotifyIds : TimeoutFires(m)
    \/ \E m \in NotifyIds, r \in SendResults : TimeoutResumes(m, r)
    \/ \E h \in AckIds, p \in UsualPayloads(KnownIds) :
          handle_schedule_response(h, p)
    \/ \E h \in AckIds, r \in SendResults : HandlerResumes(h, r)
    \/ \E c \in Conns : WsOpen(c, "t1")
    \/ \E c \in Conns : WsDisconnect(c)

Spec == Init /\ [][Next]_vars

\* The tracker alone: commands, their responses, their timeouts and the
\* sweep, with no message-tenant mapping and no connection.
RegisterTypes == {"schedule", "plc_control"}

NextTracker ==
    \/ \E m \in MsgIds, ct \in RegisterTypes :
          RegisterCommand(m, ct, "t1", DefaultTimeoutSeconds)
    \/ \E m \in MsgIds : TimeoutFires(m)
    \/ \E h \in AckIds, p \in WellFormedPayloads(KnownIds) :
          handle_schedule_response(h, p)
    \/ CleanupExpired(0)
    \/ Tick

SpecTracker == Init /\ [][NextTracker]_vars

\* The tracker with its introspection: commands registered at different
\* times and resolved in any order, by a status update or by their timeout,
\* and callers that read the tables in between.
NextQuery ==
    \/ \E m \in QueryIds :
          RegisterCommand(m, "schedule", "t1", DefaultTimeoutSeconds)
    \/ \E m \in QueryIds, status \in {"ok", "error"} :
          /\ m \in DOMAIN pending_commands
          /\ UpdateStatusCall(m, status, PyNone)
    \/ \E m \in QueryIds : TimeoutFires(m)
    \/ Tick
    \/ \E m \in QueryIds : GetCommandStatus(m)
    \/ GetPendingCommands
    \/ \E limit \in 0..MaxLimit : GetRecentHistory(limit)

SpecQuery == Init /\ [][NextQuery]_vars

\* A device that never answers: commands are registered one after the other
\* and each leaves the pending table when its timeout fires.
NextTimeouts ==
    \/ \E m \in TimeoutIds :
          /\ pending_commands = EmptyDict
          /\ RegisterCommand(m, "schedule", "t1", DefaultTimeoutSeconds)
    \/ \E m \in TimeoutIds : TimeoutFires(m)

SpecTimeouts == Init /\ [][NextTimeouts]_vars

\* The registry under several tenants: sockets opened under any path,
\* closed or failing, commands of either tenant, published or not, and the
\* responses that fan out to them.
NextRegistry ==
    \/ \E c \in Conns, path \in TenantPaths : WsOpen(c, path)
    \/ \E c \in Conns : WsDisconnect(c)
    \/ \E c \in Conns : WsError(c)
    \/ \E m \in NotifyIds, tenant_id \in Tenants, publish_ok \in BOOLEAN :
          IssueCommand(m, tenant_id, publish_ok)
    \/ \E h \in AckIds, p \in UsualPayloads(KnownIds) :
          handle_action_response(h, p)
    \/ \E h \in AckIds, r \in SendResults : HandlerResumes(h, r)

SpecRegistry == Init /\ [][NextRegistry]_vars

\* What the broker may deliver on a response topic: any bytes
InboundPayloads == WellFormedPayloads(KnownIds) \cup MalformedPayloads(KnownIds)

\* The three response topics receiving well-formed and malformed payloads
\* for the commands of one tenant.
NextParse ==
    \/ \E m \in NotifyIds : IssueCommand(m, "t1", TRUE)
    \/ \E m \in NotifyIds, ct \in RegisterTypes :
          RegisterCommand(m, ct, "t1", DefaultTimeoutSeconds)
    \/ \E h \in AckIds, p \in InboundPayloads : handle_schedule_response(h, p)
    \/ \E h \in AckIds, p \in InboundPayloads : handle_action_response(h, p)
    \/ \E h \in AckIds, p \in InboundPayloads :
          handle_plc_settings_response(h, p)
    \/ \E h \in AckIds, r \in SendResults : HandlerResumes(h, r)
    \/ \E c \in Conns : WsOpen(c, "t1")

SpecParse == Init /\ [][NextParse]_vars

\* One caller that registers a command, resolves it, and goes on to the
\* next, more often than the history is meant to hold.
NextHist ==
    \/ \E m \in HistIds :
          /\ pending_commands = EmptyDict
          /\ RegisterCommand(m, "schedule", "t1", DefaultTimeoutSeconds)
    \/ \E m \in HistIds : /\ m \in DOMAIN pending_commands
                          /\ UpdateStatusCall(m, "ok", PyNone)
    \/ Tick

SpecHist == Init /\ [][NextHist]_vars

\* Commands of one tenant whose publish may fail and whose device may stay
\* silent. The event loop runs every coroutine that can run: a sleep that
\* has ended and a send that has completed resume their coroutine.
NextLive ==
    \/ \E m \in NotifyIds, publish_ok \in BOOLEAN :
          IssueCommand(m, "t1", publish_ok)
    \/ \E m \in NotifyIds :
          RegisterCommand(m, "plc_control", "t1", DefaultTimeoutSeconds)
    \/ \E m \in NotifyIds : TimeoutFires(m)
    \/ \E m \in NotifyIds, r \in SendResults : TimeoutResumes(m, r)
    \/ \E h \in AckIds, p \in UsualPayloads(published) :
          handle_plc_settings_response(h, p)
    \/ \E h \in AckIds, r \in SendResults : HandlerResumes(h, r)
    \/ \E c \in Conns : WsOpen(c, "t1")

SpecLive ==
    /\ Init
    /\ [][NextLive]_vars
    /\ WF_vars(\E m \in NotifyIds : TimeoutFires(m))
    /\ WF_vars(\E m \in NotifyIds, r \in SendResults : TimeoutResumes(m, r))
    /\ WF_vars(\E h \in AckIds, r \in SendResults : HandlerResumes(h, r))

\* Published commands of one tenant and the device's responses on the
\* response topic of any command type.
NextTopics ==
    \/ \E m \in NotifyIds : IssueCommand(m, "t1", TRUE)
    \/ \E c \in Conns : WsOpen(c, "t1")
    \/ \E h \in AckIds, ct \in CommandTypes, p \in UsualPayloads(published) :
          DeliverAck(h, ct, p)
    \/ \E h \in AckIds, r \in SendResults : HandlerResumes(h, r)

SpecTopics == Init /\ [][NextTopics]_vars

\* The peer of the last connection has stopped reading: a send_text to it
\* never completes. Sends to the other connections complete (or fail), and
\* the event loop then resumes the coroutine that awaited them.
SlowConnection(c) == c = NumConns

HealthySendCompletes ==
    \E h \in AckIds, r \in SendResults :
        /\ handler[h].connection # Missing
        /\ ~SlowConnection(handler[h].connection[1])
        /\ HandlerResumes(h, r)

NextSlow ==
    \/ \E m \in NotifyIds : IssueCommand(m, "t1", TRUE)
    \/ \E c \in Conns : WsOpen(c, "t1")
    \/ \E h \in AckIds, p \in UsualPayloads(published) :
          handle_action_response(h, p)
    \/ HealthySendCompletes

SpecSlow == Init /\ [][NextSlow]_vars /\ WF_vars(HealthySendCompletes)

\* ------------------------------------------------------------------ claims
\* The sends of the bag that gave connection c a message about message_id
SendsTo(c, message_id) ==
    {send \in DOMAIN sent : send.to = c /\ send.message.message_id = message_id}

RECURSIVE BagCount(_, _)
BagCount(bag, sends) ==
    IF sends = {} THEN 0
    ELSE LET send == CHOOSE x \in sends : TRUE
         IN  bag[send] + BagCount(bag, sends \ {send})

\* How many messages about message_id connection c was sent
Notifications(c, message_id) == BagCount(sent, SendsTo(c, message_id))

\* C1: once a command has its terminal record (written by the response or
\* by the timeout, whichever came first), nothing that comes later changes
\* the record's status, error or response timestamp, and the command never
\* goes back to pending.
C1_FirstTerminalWins ==
    [][\A m \in MsgIds :
          m \in HistoryKeys(command_history) =>
              /\ m \notin DOMAIN pending_commands'
              /\ m \in HistoryKeys(command_history')
              /\ HistoryGet(command_history', m) = HistoryGet(command_history, m)
      ]_vars

\* C1 witness: a response was handled for a command whose timeout had fired
C1_ResponseAfterTimeout ==
    \E h \in AckIds : handler[h].pc = "done" /\ handler[h].saw = "timeout"


\* C2: no connection is sent more than one command_response notification for
\* one message id, whatever the interleaving of the timeout task, the
\* response handlers and the sends they await.
C2_AtMostOneNotification ==
    \A c \in Conns, m \in MsgIds : Notifications(c, m) <= 1

\* A call of broadcast_to_message_originator for m that found the tenant,
\* fanned out and returned
FanOutReturned(m) ==
    \/ \E h \in AckIds : /\ handler[h].pc = "done"
                         /\ handler[h].exc = ""
                         /\ handler[h].message_id = m
                         /\ handler[h].tenant_id # Missing
    \/ /\ m \in DOMAIN task
       /\ task[m].pc = "done"
       /\ task[m].tenant_id # Missing

\* C3: a call of broadcast_to_message_originator that starts after a call
\* for the same message id has fanned out and returned finds no mapping: it
\* ends at once, sends nothing and leaves the registry alone.
C3_SecondCallIsNoOp ==
    [][\A m \in MsgIds : FanOutReturned(m) =>
          /\ \A h \in AckIds :
                (/\ handler[h].pc = "idle"
                 /\ handler'[h].pc # "idle"
                 /\ handler'[h].message_id = m)
                => /\ handler'[h].pc = "done"
                   /\ handler'[h].tenant_id = Missing
                   /\ sent' = sent
                   /\ UNCHANGED registryVars
          /\ (/\ m \in DOMAIN task
              /\ task[m].pc = "sleeping"
              /\ task'[m].pc \notin {"sleeping", "cancelled"})
             => /\ task'[m].pc = "done"
                /\ task'[m].tenant_id = Missing
                /\ sent' = sent
                /\ UNCHANGED registryVars
      ]_vars

\* C3 witness: two calls for one message id have returned; the first found
\* the tenant and sent, the second found no mapping
C3_TwoCallsOneFanOut ==
    \E p, q \in AckIds :
        /\ p # q
        /\ handler[p].pc = "done" /\ handler[q].pc = "done"
        /\ handler[p].exc = "" /\ handler[q].exc = ""
        /\ handler[p].message_id \in MsgIds
        /\ handler[q].message_id = handler[p].message_id
        /\ handler[p].tenant_id # Missing
        /\ handler[q].tenant_id = Missing
        /\ \E send \in DOMAIN sent : send.by = << "ack", p >>

\* C8: when an ok response for a pending command has been handled, every
\* connection that was registered for the command's tenant when the fan-out
\* began, and still is, has been sent exactly one message about the command,
\* the ok notification, and get_command_status reports ok.
C8_OkResponseNotifiesOnce ==
    \A h \in AckIds :
        LET m == handler[h].message_id
            t == handler[h].tenant_id
        IN  (/\ handler[h].pc = "done"
             /\ handler[h].exc = ""
             /\ handler[h].saw = "pending"
             /\ t # Missing
             /\ get_command_status(m) # Missing
             /\ get_command_status(m)[1].status = "ok")
            => \A c \in handler[h].iter_old :
                  (/\ t[1] \in DOMAIN active_connections
                   /\ c \in active_connections[t[1]])
                  => /\ Notifications(c, m) = 1
                     /\ \A send \in SendsTo(c, m) :
                           send.message =
                               [type |-> "command_response",
                                command_type |-> send.message.command_type,
                                message_id |-> m,
                                status |-> "ok",
                                error |-> PyNone]

\* C9: a response for a pending command whose tenant has no connection is
\* handled to the end in one step: no exception, nothing sent, the terminal
\* status recorded, the mapping removed.
C9_NoRecipients ==
    [][\A h \in AckIds, m \in MsgIds :
          (/\ handler[h].pc = "idle"
           /\ handler'[h].pc # "idle"
           /\ handler'[h].message_id = m
           /\ m \in DOMAIN pending_commands
           /\ m \in DOMAIN message_to_tenant_map
           /\ message_to_tenant_map[m] \notin DOMAIN active_connections)
          => /\ handler'[h].pc = "done"
             /\ handler'[h].exc = ""
             /\ sent' = sent
             /\ m \notin DOMAIN message_to_tenant_map'
             /\ m \notin DOMAIN pending_commands'
             /\ m \in HistoryKeys(command_history')
             /\ HistoryGet(command_history', m).status \in {"ok", "error"}
             /\ UNCHANGED << active_connections, setgen >>
      ]_vars

\* C9 witness: a response for a pending command was handled while its tenant
\* had no connection
C9_HandledWithoutRecipients ==
    \E h \in AckIds :
        /\ handler[h].pc = "done"
        /\ handler[h].exc = ""
        /\ handler[h].saw = "pending"
        /\ handler[h].tenant_id # Missing
        /\ handler[h].iter_old = {}
        /\ handler[h].message_id \notin DOMAIN message_to_tenant_map
        /\ handler[h].message_id \in HistoryKeys(command_history)


\* C4: every message a broadcast to tenant A sent went to a connection that
\* was registered under A, never to one registered under another tenant.
C4_TenantIsolation ==
    \A send \in DOMAIN sent : ws[send.to].tenant_id = send.tenant_id

\* C4 witness: a broadcast to one tenant has sent while a connection of
\* another tenant was registered
C4_SentBesideOtherTenant ==
    \E send \in DOMAIN sent : \E k \in DOMAIN active_connections :
        /\ k # send.tenant_id
        /\ active_connections[k] # {}

\* C7: no key of active_connections maps to an empty set.
C7_NoEmptySet ==
    \A k \in DOMAIN active_connections : active_connections[k] # {}

\* C7 witness: a tenant's last connection was removed by a broadcast whose
\* send to it failed (its endpoint is still open), and the key is gone
C7_LastConnectionRemoved ==
    \E c \in Conns :
        /\ ws[c].pc = "open"
        /\ setgen[ws[c].tenant_id] > 0
        /\ ws[c].tenant_id \notin DOMAIN active_connections


\* C10: a handler given a payload that does not validate ends without an
\* exception escaping it, and the pending table, the history, the
\* message-tenant index and what has been sent are as they were.
C10_MalformedPayloadIgnored ==
    [][\A h \in AckIds :
          (/\ handler[h].pc = "idle"
           /\ handler'[h].pc # "idle"
           /\ handler'[h].exc \in {"ValidationError", "UnicodeDecodeError"})
          => /\ handler'[h].pc = "done"
             /\ UNCHANGED << pending_commands, command_history,
                             message_to_tenant_map, sent >>
      ]_vars


\* C6: the history never holds more than max_history_size records, however
\* many commands have been registered and resolved.
C6_HistoryBounded == Len(command_history) <= max_history_size


\* C5: when the timeout of a command that is still pending fires and the
\* tenant that issued it has connections, the command leaves the pending
\* table for the history with status timeout and the task begins to send the
\* timeout notification to one of those connections.
C5_TimeoutNotifiesTenant ==
    [][\A m \in MsgIds :
          (/\ m \in DOMAIN task
           /\ task[m].pc = "sleeping"
           /\ task'[m].pc \notin {"sleeping", "cancelled"}
           /\ m \in DOMAIN pending_commands
           /\ pending_commands[m].tenant_id \in DOMAIN active_connections)
          => /\ m \notin DOMAIN pending_commands'
             /\ m \in HistoryKeys(command_history')
             /\ HistoryGet(command_history', m).status = "timeout"
             /\ task'[m].pc = "sending"
             /\ task'[m].message.status = "timeout"
             /\ task'[m].connection # Missing
             /\ task'[m].connection[1]
                    \in active_connections[pending_commands[m].tenant_id]
      ]_vars


\* C11: a well-formed response whose message id is not pending leaves the
\* pending table, the history and the timers as they are, and its handler
\* ends without starting a send to any connection.
C11_UnknownResponseIgnored ==
    [][\A h \in AckIds, m \in MsgIds :
          (/\ handler[h].pc = "idle"
           /\ handler'[h].pc # "idle"
           /\ handler'[h].message_id = m
           /\ m \notin DOMAIN pending_commands)
          => /\ UNCHANGED << pending_commands, command_history, timeout_tasks >>
             /\ handler'[h].pc = "done"
             /\ sent' = sent
      ]_vars


\* C12: a command handed to publish has its message id mapped to the issuing
\* tenant from that moment until a call of broadcast_to_message_originator
\* for it has returned, so the first response handled finds the mapping.
C12_MappingBeforePublish ==
    \A m \in published :
        \/ /\ m \in DOMAIN message_to_tenant_map
           /\ message_to_tenant_map[m] = issued[m]
        \/ FanOutReturned(m)

\* C12 witness: the response to a published command was handled and found
\* the tenant that issued it
C12_ResponseFoundMapping ==
    \E h \in AckIds :
        /\ handler[h].pc # "idle"
        /\ handler[h].message_id \in published
        /\ handler[h].tenant_id = Some(issued[handler[h].message_id])


\* C13: at the moment a command is handed to publish, the tracker holds a
\* pending record under its message id and a timeout task is scheduled.
C13_PublishedIsTracked ==
    [][\A m \in MsgIds :
          (m \in published' /\ m \notin published)
          => /\ m \in DOMAIN pending_commands'
             /\ pending_commands'[m].status = "pending"
             /\ m \in timeout_tasks'
             /\ task'[m].pc = "sleeping"
      ]_vars


\* C14: every mapping an endpoint registered is eventually removed, whether
\* or not the publish succeeded and whether or not the device responds.
C14_MappingEventuallyRemoved ==
    \A m \in NotifyIds :
        (m \in DOMAIN message_to_tenant_map)
            ~> (m \notin DOMAIN message_to_tenant_map)


\* C15: a pending command that leaves the pending table other than by a
\* response (by its timeout, or by the cleanup sweep) is then in the
\* history with status timeout, where get_command_status finds it.
C15_SweepRecordsTimeout ==
    [][\A m \in MsgIds :
          (/\ m \in DOMAIN pending_commands
           /\ m \notin DOMAIN pending_commands'
           /\ handler' = handler)
          => /\ get_command_status(m)' # Missing
             /\ get_command_status(m)'[1].status = "timeout"
      ]_vars


\* The set a suspended broadcast iterates is the object it started on, with
\* as many members
SetIntact(frame) ==
    /\ frame.tenant_id[1] \in DOMAIN active_connections
    /\ frame.iter_gen = setgen[frame.tenant_id[1]]
    /\ Cardinality(active_connections[frame.tenant_id[1]]) = frame.iter_size

\* C16: when a send of a broadcast fails, the broadcast goes on without an
\* exception: the connection is marked dead, the loop continues with the
\* next connection or ends, and at the end the dead connection is gone
\* from the tenant's set.
C16_SendFailureContained ==
    [][/\ \A h \in AckIds :
            (/\ handler[h].pc = "sending"
             /\ handler'[h] # handler[h]
             /\ sent' = sent
             /\ SetIntact(handler[h]))
            => /\ handler'[h].exc = ""
               /\ handler'[h].pc \in {"sending", "done"}
               /\ handler'[h].pc = "sending"
                     => handler[h].connection[1] \in handler'[h].disconnected
               /\ handler'[h].pc = "done"
                     => \A k \in DOMAIN active_connections' :
                           handler[h].connection[1] \notin active_connections'[k]
       /\ \A m \in DOMAIN task :
            (/\ task[m].pc = "sending"
             /\ task'[m] # task[m]
             /\ sent' = sent
             /\ SetIntact(task[m]))
            => /\ task'[m].exc = ""
               /\ task'[m].pc \in {"sending", "done"}
               /\ task'[m].pc = "sending"
                     => task[m].connection[1] \in task'[m].disconnected
               /\ task'[m].pc = "done"
                     => \A k \in DOMAIN active_connections' :
                           task[m].connection[1] \notin active_connections'[k]
      ]_vars


\* C17: a socket opened under a path that is not a UUID is rejected, is in
\* no tenant's connection set, and its rejection leaves the registry as it
\* was.
C17_MalformedTenantRejected ==
    [][\A c \in Conns :
          (ws'[c].pc # "new" /\ UuidParse(ws'[c].tenant_id) = Missing)
          => /\ ws'[c].pc = "rejected"
             /\ \A k \in DOMAIN active_connections' :
                   c \notin active_connections'[k]
             /\ ws'[c].tenant_id \notin DOMAIN active_connections'
             /\ ws[c].pc = "new" => UNCHANGED registryVars
      ]_vars

\* C17 witness: a socket was opened under a malformed path and rejected
\* while another tenant's connection was registered
C17_RejectedBesideOpen ==
    \E c, d \in Conns :
        /\ ws[c].pc = "rejected"
        /\ UuidParse(ws[c].tenant_id) = Missing
        /\ ws[d].pc = "open"
        /\ d \in active_connections[ws[d].tenant_id]


\* C18: a response the device publishes for a command, on the response
\* topic of any of the four command types, reaches a handler, which takes
\* it up for its message id.
C18_EveryTypeHandled ==
    [][\A h \in AckIds :
          (handler[h].pc = "idle" /\ handler'[h].pc # "idle")
          => /\ handler'[h].pc \in {"sending", "done"}
             /\ handler'[h].message_id \in published
      ]_vars


\* C19: while a broadcast is suspended in a send, the collection its loop
\* iterates is the one it started with: connects and disconnects of the
\* tenant do not show in it.
C19_StableIteration ==
    /\ \A h \in AckIds :
          handler[h].pc = "sending"
          => /\ SetIntact(handler[h])
             /\ active_connections[handler[h].tenant_id[1]] = handler[h].iter_old
    /\ \A m \in DOMAIN task :
          task[m].pc = "sending"
          => /\ SetIntact(task[m])
             /\ active_connections[task[m].tenant_id[1]] = task[m].iter_old


\* C20: a connection that is in the tenant's set when a broadcast begins,
\* and that is not the slow one, is eventually sent the message (or the
\* broadcast ends), however long the send to the slow connection takes.
\* (Handler slot h runs one broadcast, so its sends are that broadcast's.)
C20_SlowSendDoesNotBlock ==
    \A h \in AckIds, d \in Conns :
        (/\ handler[h].pc = "sending"
         /\ d \in handler[h].iter_old
         /\ ~SlowConnection(d))
        ~> (\/ handler[h].pc = "done"
            \/ \E send \in DOMAIN sent :
                  send.to = d /\ send.by = << "ack", h >>)


\* C21: a timeout task is stored for exactly the pending message ids, and
\* the tasks still waiting to fire are exactly those of pending commands:
\* the task of a command resolved by a response or removed by the sweep has
\* been cancelled.
C21_TimerIffPending ==
    /\ timeout_tasks = DOMAIN pending_commands
    /\ \A m \in DOMAIN task :
          task[m].pc = "sleeping" <=> m \in DOMAIN pending_commands

\* C21 witness: one command was resolved by a response and another removed
\* by the sweep, and the timers of both are cancelled
C21_BothCancelled ==
    \E m, k \in DOMAIN task :
        /\ m \in HistoryKeys(command_history)
        /\ HistoryGet(command_history, m).status \in {"ok", "error"}
        /\ task[m].pc = "cancelled"
        /\ k \notin HistoryKeys(command_history)
        /\ k \notin DOMAIN pending_commands
        /\ task[k].pc = "cancelled"


\* C22: a record the tracker holds carries an error only when its status is
\* error or timeout; a record resolved with status ok has none.
C22_ErrorOnlyWhenFailed ==
    /\ \A m \in DOMAIN pending_commands :
          pending_commands[m].error \in {Missing, Some(PyNone)}
    /\ \A i \in 1..Len(command_history) :
          command_history[i].status \notin {"error", "timeout"}
          => command_history[i].error \in {Missing, Some(PyNone)}

\* C23: a connection handle belongs to at most one connection set of the
\* registry: the sets stored under two different keys never share a handle.
C23_OneSetPerHandle ==
    \A k1, k2 \in DOMAIN active_connections :
        k1 # k2 => active_connections[k1] \cap active_connections[k2] = {}

\* C23 witness: two tenants' sets each hold an open connection.
C23_TwoTenantsConnected ==
    \E k1, k2 \in DOMAIN active_connections :
        /\ UuidParse(k1) # UuidParse(k2)
        /\ \E c \in active_connections[k1] : ws[c].pc = "open"
        /\ \E d \in active_connections[k2] : ws[d].pc = "open"

\* C24: once the endpoint of an accepted connection has ended, by a client's
\* disconnect or by any other error of the connection, the handle is in no
\* connection set of the registry.
C24_FinishedEndpointUnregistered ==
    \A c \in Conns :
        ws[c].pc \in {"closed", "crashed"}
        => \A k \in DOMAIN active_connections : c \notin active_connections[k]

\* C25: a step in which an introspection call returns leaves the pending
\* table, the history table, the timer table and the message-tenant index as
\* they were; get_command_status returns the pending record of the id, else
\* its history record, else None; get_pending_commands returns the pending
\* table; get_recent_history(limit) returns limit records of the history (all
\* of them when there are fewer), each one once, and no record it leaves out
\* was registered later than one it returns.
C25_QueriesReadOnly ==
    [][ returned' # returned =>
        /\ UNCHANGED << pending_commands, command_history, timeout_tasks, task,
                        message_to_tenant_map >>
        /\ returned'.call = "get_command_status" =>
              LET m == returned'.arg
              IN  /\ m \in DOMAIN pending_commands
                     => returned'.value = Some(pending_commands[m])
                  /\ (m \notin DOMAIN pending_commands
                      /\ m \in HistoryKeys(command_history))
                     => returned'.value = Some(HistoryGet(command_history, m))
                  /\ (m \notin DOMAIN pending_commands
                      /\ m \notin HistoryKeys(command_history))
                     => returned'.value = Missing
        /\ returned'.call = "get_pending_commands" =>
              returned'.value = pending_commands
        /\ returned'.call = "get_recent_history" =>
              LET recent == returned'.value
                  limit == returned'.arg
                  ids == {recent[i].message_id : i \in 1..Len(recent)}
              IN  /\ Len(recent) <= limit
                  /\ Len(recent) = Min(limit, Len(command_history))
                  /\ Cardinality(ids) = Len(recent)
                  /\ \A i \in 1..Len(recent) :
                        /\ recent[i].message_id \in HistoryKeys(command_history)
                        /\ recent[i] = HistoryGet(command_history,
                                                  recent[i].message_id)
                  /\ \A i \in 1..Len(recent), j \in 1..Len(command_history) :
                        command_history[j].message_id \notin ids
                        => recent[i].timestamp >= command_history[j].timestamp
      ]_vars

\* C25 witness: get_recent_history(1) has returned one record of a history
\* that holds an older one as well, while a command is still pending.
C25_TruncatedHistoryReturned ==
    /\ returned.call = "get_recent_history"
    /\ returned.arg = 1
    /\ Len(returned.value) = 1
    /\ \E j \in 1..Len(command_history) :
          command_history[j].timestamp < returned.value[1].timestamp
    /\ pending_commands # EmptyDict

\* C26: with every command registered under a message id of its own, no
\* message id is a key of both the pending table and the history table, every
\* pending record has status pending, and every history record has status
\* ok, error or timeout and a response timestamp.
C26_PendingAndHistoryApart ==
    /\ DOMAIN pending_commands \cap HistoryKeys(command_history) = {}
    /\ \A m \in DOMAIN pending_commands :
          pending_commands[m].status = "pending"
    /\ \A i \in 1..Len(command_history) :
          /\ command_history[i].status \in {"ok", "error", "timeout"}
          /\ command_history[i].response_timestamp # Missing

\* C26 witness: one command has timed out into the history, resolved later
\* than it was registered, while another is pending.
C26_TimedOutBesidePending ==
    /\ \E i \in 1..Len(command_history) :
          /\ command_history[i].status = "timeout"
          /\ command_history[i].response_timestamp
                 = Some(command_history[i].timestamp + DefaultTimeoutSeconds)
    /\ \E m \in DOMAIN pending_commands : pending_commands[m].status = "pending"

\* C27: once a broadcast that found a tenant for its message id has ended,
\* by returning or by an exception of a send, the message id is no longer a
\* key of the message-tenant index.
C27_MappingGoneAfterFanOut ==
    /\ \A h \in AckIds :
          (/\ handler[h].pc = "done"
           /\ handler[h].tenant_id \notin {Missing, Some("")})
          => handler[h].message_id \notin DOMAIN message_to_tenant_map
    /\ \A m \in DOMAIN task :
          (/\ task[m].pc \in {"done", "raised"}
           /\ task[m].tenant_id \notin {Missing, Some("")})
          => task[m].message_id \notin DOMAIN message_to_tenant_map

\* C28: when commands leave the pending table by timing out, the history
\* never holds more than max_history_size records plus the slack of the
\* eviction.
C28_TimeoutHistoryBounded ==
    Len(SelectSeq(command_history, LAMBDA info : info.status = "timeout"))
        <= max_history_size + HistorySliceSlack

\* C29: every notification that was sent for a message id the tracker knows
\* carries the command type the id was registered under.
C29_NotifiedTypeIsRegisteredType ==
    \A send \in DOMAIN sent :
        LET m == send.message.message_id
        IN  get_command_status(m) # Missing
            => send.message.command_type = get_command_status(m)[1].command_type

\* C30: when a response handler's broadcast finds tenant T for its message
\* id, every connection that is open and registered, and that the endpoint
\* accepted under some text of T's UUID, is among the connections the
\* fan-out goes to.
C30_AcceptedConnectionsReached ==
    [][ \A h \in AckIds :
          (/\ handler[h].pc = "idle"
           /\ handler'[h].pc # "idle"
           /\ handler'[h].tenant_id \notin {Missing, Some("")})
          => \A c \in Conns :
                (/\ ws[c].pc = "open"
                 /\ UuidParse(ws[c].tenant_id) = handler'[h].tenant_id
                 /\ \E k \in DOMAIN active_connections :
                       c \in active_connections[k])
                => c \in handler'[h].iter_old
      ]_vars

====
